---- MODULE Spec2Model ----
(***************************************************************************)
(* Model of the Amplitude export -> upload pipeline:                        *)
(*   scripts/convert_events.py   (parse_timestamp, convert_event,           *)
(*                                process_json_file)                        *)
(*   scripts/bundle_requests.py  (create_payload, estimate_payload_size,    *)
(*                                batch_events, generate_curl_script, main) *)
(*                                                                          *)
(* JSON values are tagged records:                                          *)
(*   [t |-> "null"]  [t |-> "bool", b]  [t |-> "int", n]                    *)
(*   [t |-> "float", n]   (n is the value in tenths: 15 stands for 1.5)     *)
(*   [t |-> "str", s]     (s is the sequence of the string's characters)    *)
(*   [t |-> "list", items]  (items is a sequence of values)                 *)
(*   [t |-> "dict", d]    (d is a function from key strings to values)      *)
(* Python dict equality ignores key order, and so does function equality.   *)
(***************************************************************************)
EXTENDS Integers, Sequences, FiniteSets, TLC

VARIABLES
    \* ---- bundle_requests.py ----
    bpc,            \* position of bundle_requests.main / batch_events
    api_key,        \* args.api_key
    events,         \* all_events, the argument of batch_events
    ei,             \* number of events the for loop of batch_events has consumed
    batches,        \* batch_events: batches
    current_batch,  \* batch_events: current_batch
    scripts,        \* the batch_NNNN.sh files written by generate_curl_script
    reported,       \* the payload_size printed by main for each script
    eu,             \* args.eu
    run_all,        \* number of batches run_all.sh loops over (0: not written)
    \* ---- convert_events.py: convert_event as a pure function ----
    cpc,            \* position of the convert_event driver
    tz,             \* UTC offset (seconds) of the process's local time zone
    export_event,   \* the argument of convert_event
    upload_event,   \* the outcome of convert_event(export_event)
    again,          \* the outcome of convert_event applied to upload_event
    \* ---- convert_events.py: process_json_file ----
    ppc,            \* position of process_json_file
    lines,          \* the lines of the input file
    line_num,       \* number of lines the for loop has taken from the file
    converted,      \* process_json_file: converted
    skipped         \* process_json_file: skipped

bvars == <<bpc, api_key, events, ei, batches, current_batch, scripts, reported,
          eu, run_all>>
cvars == <<cpc, export_event, upload_event, again>>
pvars == <<ppc, lines, line_num, converted, skipped>>
vars == <<bvars, cvars, pvars, tz>>

(***************************************************************************)
(* JSON values                                                             *)
(***************************************************************************)
JNull == [t |-> "null"]
JBool(b) == [t |-> "bool", b |-> b]
JInt(n) == [t |-> "int", n |-> n]
JFloat(n) == [t |-> "float", n |-> n]
JStr(s) == [t |-> "str", s |-> s]
JList(items) == [t |-> "list", items |-> items]
JDict(d) == [t |-> "dict", d |-> d]

EmptyMap == [k \in {} |-> JNull]

\* Python truthiness of a JSON value: bool(value)
Truthy(v) ==
    CASE v.t = "null" -> FALSE
      [] v.t = "bool" -> v.b
      [] v.t = "int" -> v.n # 0
      [] v.t = "float" -> v.n # 0
      [] v.t = "str" -> v.s # <<>>
      [] v.t = "list" -> v.items # <<>>
      [] v.t = "dict" -> DOMAIN v.d # {}

(***************************************************************************)
(* json.dumps(value, separators=(item_sep, key_sep)), ensure_ascii=True.   *)
(* The characters of the model's strings are printable ASCII, so the       *)
(* encoded byte length of the result is its character length.              *)
(***************************************************************************)
\* json's escape of one character inside a string literal
EscapeChar(c) ==
    IF c = "\"" THEN "\\\"" ELSE IF c = "\\" THEN "\\\\" ELSE c

RECURSIVE EscapeChars(_)
EscapeChars(s) ==
    IF s = <<>> THEN "" ELSE EscapeChar(Head(s)) \o EscapeChars(Tail(s))

\* repr of a non-negative float given in tenths
FloatRepr(n) == ToString(n \div 10) \o "." \o ToString(n % 10)

\* Dict keys are plain identifiers, which json writes between quotes unescaped.
RECURSIVE dumps(_, _, _)
RECURSIVE DumpItems(_, _, _)
RECURSIVE DumpMembers(_, _, _, _)

DumpItems(items, item_sep, key_sep) ==
    IF items = <<>> THEN ""
    ELSE dumps(Head(items), item_sep, key_sep)
         \o (IF Tail(items) = <<>> THEN "" ELSE item_sep)
         \o DumpItems(Tail(items), item_sep, key_sep)

DumpMembers(d, ks, item_sep, key_sep) ==
    IF ks = {} THEN ""
    ELSE LET k == CHOOSE x \in ks : TRUE
             rest == ks \ {k}
         IN "\"" \o k \o "\"" \o key_sep \o dumps(d[k], item_sep, key_sep)
            \o (IF rest = {} THEN "" ELSE item_sep)
            \o DumpMembers(d, rest, item_sep, key_sep)

dumps(v, item_sep, key_sep) ==
    CASE v.t = "null" -> "null"
      [] v.t = "bool" -> (IF v.b THEN "true" ELSE "false")
      [] v.t = "int" -> ToString(v.n)
      [] v.t = "float" -> FloatRepr(v.n)
      [] v.t = "str" -> "\"" \o EscapeChars(v.s) \o "\""
      [] v.t = "list" -> "[" \o DumpItems(v.items, item_sep, key_sep) \o "]"
      [] v.t = "dict" -> "{" \o DumpMembers(v.d, DOMAIN v.d, item_sep, key_sep) \o "}"

\* Mutation: the size is taken of the compact serialisation
dumps_default_Compact(v) == dumps(v, ",", ":")

\* json.dumps(value): the default separators
dumps_default(v) == dumps(v, ", ", ": ")

\* json.dumps(value, separators=(',', ':'))
dumps_compact(v) == dumps(v, ",", ":")

(***************************************************************************)
(* bundle_requests.py                                                      *)
(***************************************************************************)
\* The API limits, scaled down so that a handful of events reaches them
\* (the script has 2000 events and 19 * 1024 * 1024 bytes).
MAX_EVENTS_PER_BATCH == 2
SAFE_PAYLOAD_BYTES == 150

create_payload(key, evs) ==
    JDict([k \in {"api_key", "events"} |->
              IF k = "api_key" THEN JStr(key) ELSE JList(evs)])

estimate_payload_size(key, evs) == Len(dumps_default(create_payload(key, evs)))

\* the body generate_curl_script hands to curl -d
payload_json(key, evs) == dumps_compact(create_payload(key, evs))

\* Mutation: the count check lets one event too many in
OverCount_OffByOne(test_batch) == Len(test_batch) > MAX_EVENTS_PER_BATCH + 1

\* Mutation: the size check measures the batch before the event is added
OverSize_Current(key, test_batch) ==
    estimate_payload_size(key, SubSeq(test_batch, 1, Len(test_batch) - 1))
        > SAFE_PAYLOAD_BYTES

\* Mutation: the count check closes the batch one event early
OverCount_Early(test_batch) == Len(test_batch) >= MAX_EVENTS_PER_BATCH

\* batch_events, the two limit checks on test_batch = current_batch + [event]
OverCount(test_batch) == Len(test_batch) > MAX_EVENTS_PER_BATCH

OverSize(key, test_batch) ==
    estimate_payload_size(key, test_batch) > SAFE_PAYLOAD_BYTES

\* main: no events were read, nothing is batched or written
MainNoEvents ==
    /\ bpc = "main"
    /\ events = <<>>
    /\ bpc' = "done"
    /\ UNCHANGED <<api_key, events, ei, batches, current_batch, scripts,
                   reported, eu, run_all>>
    /\ UNCHANGED <<cvars, pvars, tz>>

\* main calls batch_events(all_events, args.api_key)
MainBatch ==
    /\ bpc = "main"
    /\ events # <<>>
    /\ bpc' = "batch"
    /\ batches' = <<>>
    /\ current_batch' = <<>>
    /\ ei' = 0
    /\ UNCHANGED <<api_key, events, scripts, reported, eu, run_all>>
    /\ UNCHANGED <<cvars, pvars, tz>>

\* one iteration of the for loop: the count limit closes the current batch
BatchCountSplit ==
    /\ bpc = "batch"
    /\ ei < Len(events)
    /\ LET event == events[ei + 1]
           test_batch == Append(current_batch, event)
       IN /\ OverCount(test_batch)
          /\ batches' = IF current_batch # <<>>
                        THEN Append(batches, current_batch) ELSE batches
          /\ current_batch' = <<event>>
    /\ ei' = ei + 1
    /\ UNCHANGED <<bpc, api_key, events, scripts, reported, eu, run_all>>
    /\ UNCHANGED <<cvars, pvars, tz>>

\* one iteration of the for loop: the size limit closes the current batch
BatchSizeSplit ==
    /\ bpc = "batch"
    /\ ei < Len(events)
    /\ LET event == events[ei + 1]
           test_batch == Append(current_batch, event)
       IN /\ ~OverCount(test_batch)
          /\ OverSize(api_key, test_batch)
          /\ batches' = IF current_batch # <<>>
                        THEN Append(batches, current_batch) ELSE batches
          /\ current_batch' = <<event>>
    /\ ei' = ei + 1
    /\ UNCHANGED <<bpc, api_key, events, scripts, reported, eu, run_all>>
    /\ UNCHANGED <<cvars, pvars, tz>>

\* one iteration of the for loop: the event fits in the current batch
BatchAppend ==
    /\ bpc = "batch"
    /\ ei < Len(events)
    /\ LET event == events[ei + 1]
           test_batch == Append(current_batch, event)
       IN /\ ~OverCount(test_batch)
          /\ ~OverSize(api_key, test_batch)
          /\ current_batch' = test_batch
    /\ ei' = ei + 1
    /\ UNCHANGED <<bpc, api_key, events, batches, scripts, reported, eu, run_all>>
    /\ UNCHANGED <<cvars, pvars, tz>>

\* Mutation: the last batch is forgotten
BatchReturn_DropLast ==
    /\ bpc = "batch"
    /\ ei = Len(events)
    /\ bpc' = "generate"
    /\ UNCHANGED <<api_key, events, ei, batches, current_batch, scripts,
                   reported, eu, run_all>>
    /\ UNCHANGED <<cvars, pvars, tz>>

\* after the loop: the last batch is appended and batches is returned to main
BatchReturn ==
    /\ bpc = "batch"
    /\ ei = Len(events)
    /\ batches' = IF current_batch # <<>>
                  THEN Append(batches, current_batch) ELSE batches
    /\ bpc' = "generate"
    /\ UNCHANGED <<api_key, events, ei, current_batch, scripts, reported,
                   eu, run_all>>
    /\ UNCHANGED <<cvars, pvars, tz>>

\* the file generate_curl_script writes for batch number batch_num
generate_curl_script(batch_num, key, evs, is_eu) ==
    [batch_num |-> batch_num,
     endpoint |-> IF is_eu THEN "https://api.eu.amplitude.com/batch"
                  ELSE "https://api2.amplitude.com/batch",
     n_events |-> Len(evs),
     payload_size |-> Len(payload_json(key, evs)),
     body |-> payload_json(key, evs)]

\* main: one iteration of the loop over enumerate(batches, 1)
MainGenerate ==
    /\ bpc = "generate"
    /\ Len(scripts) < Len(batches)
    /\ LET i == Len(scripts) + 1
           batch == batches[i]
       IN /\ scripts' = Append(scripts, generate_curl_script(i, api_key, batch, eu))
          /\ reported' = Append(reported, estimate_payload_size(api_key, batch))
    /\ UNCHANGED <<bpc, api_key, events, ei, batches, current_batch, eu, run_all>>
    /\ UNCHANGED <<cvars, pvars, tz>>

\* main: generate_run_all_script(output_dir, len(batches), args.delay)
MainRunAll ==
    /\ bpc = "generate"
    /\ Len(scripts) = Len(batches)
    /\ run_all' = Len(batches)
    /\ bpc' = "done"
    /\ UNCHANGED <<api_key, events, ei, batches, current_batch, scripts,
                   reported, eu>>
    /\ UNCHANGED <<cvars, pvars, tz>>

NextBundle ==
    \/ MainNoEvents
    \/ MainBatch
    \/ BatchCountSplit
    \/ BatchSizeSplit
    \/ BatchAppend
    \/ BatchReturn
    \/ MainGenerate
    \/ MainRunAll

(***************************************************************************)
(* convert_events.py                                                       *)
(***************************************************************************)
\* Mutation: one field is renamed on the way to the upload format
FIELD_MAPPING_Renamed == <<
    <<"user_id", "user_id">>, <<"device_id", "device_id">>,
    <<"event_type", "event_type">>, <<"event_properties", "eventProperties">> >>

\* (export field, upload field) pairs, in the order of the dict literal
FIELD_MAPPING == <<
    <<"user_id", "user_id">>, <<"device_id", "device_id">>,
    <<"event_type", "event_type">>, <<"event_properties", "event_properties">>,
    <<"user_properties", "user_properties">>, <<"group_properties", "group_properties">>,
    <<"groups", "groups">>, <<"session_id", "session_id">>,
    <<"event_id", "event_id">>, <<"insert_id", "insert_id">>,
    <<"platform", "platform">>, <<"os_name", "os_name">>,
    <<"os_version", "os_version">>, <<"device_brand", "device_brand">>,
    <<"device_manufacturer", "device_manufacturer">>, <<"device_model", "device_model">>,
    <<"device_type", "device_type">>, <<"carrier", "carrier">>,
    <<"country", "country">>, <<"region", "region">>,
    <<"city", "city">>, <<"dma", "dma">>,
    <<"location_lat", "location_lat">>, <<"location_lng", "location_lng">>,
    <<"language", "language">>, <<"ip_address", "ip_address">>,
    <<"library", "library">>, <<"app_version", "app_version">>,
    <<"price", "price">>, <<"quantity", "quantity">>,
    <<"revenue", "revenue">>, <<"productId", "productId">>,
    <<"revenueType", "revenueType">>, <<"idfa", "idfa">>,
    <<"idfv", "idfv">>, <<"adid", "adid">>,
    <<"android_id", "android_id">> >>

\* Outcome of a call: a returned value, None, or an exception that escapes
Returned(v) == [kind |-> "value", v |-> v, exc |-> ""]
ReturnedNone == [kind |-> "none", v |-> JNull, exc |-> ""]
Raised(exc) == [kind |-> "raise", v |-> JNull, exc |-> exc]

\* `key in container` raises TypeError for a container that is not iterable
InRaises(container) == container.t \in {"null", "bool", "int", "float"}

\* `key in container`, key a field name, for an iterable container.  The
\* lists of the model hold no strings, so a field name is never an element.
In(key, container) ==
    CASE container.t = "dict" -> key \in DOMAIN container.d
      [] container.t = "list" -> FALSE
      [] OTHER -> FALSE

\* `ch in ts_str` for a one-character string ch; "raise" stands for TypeError
CharIn(ch, v) ==
    CASE v.t = "str" -> (IF \E i \in 1..Len(v.s) : v.s[i] = ch THEN "yes" ELSE "no")
      [] v.t = "list" -> (IF \E i \in 1..Len(v.items) :
                               v.items[i].t = "str" /\ v.items[i].s = <<ch>>
                          THEN "yes" ELSE "no")
      [] v.t = "dict" -> (IF ch \in DOMAIN v.d THEN "yes" ELSE "no")
      [] OTHER -> "raise"

Digits == {"0", "1", "2", "3", "4", "5", "6", "7", "8", "9"}

DigitVal(c) ==
    CASE c = "0" -> 0 [] c = "1" -> 1 [] c = "2" -> 2 [] c = "3" -> 3
      [] c = "4" -> 4 [] c = "5" -> 5 [] c = "6" -> 6 [] c = "7" -> 7
      [] c = "8" -> 8 [] c = "9" -> 9

AllDigits(s) == s # <<>> /\ \A i \in 1..Len(s) : s[i] \in Digits

RECURSIVE Number(_)
Number(s) ==
    IF s = <<>> THEN 0
    ELSE 10 * Number(SubSeq(s, 1, Len(s) - 1)) + DigitVal(s[Len(s)])

IsLeap(y) == (y % 4 = 0 /\ y % 100 # 0) \/ y % 400 = 0

DaysInMonth(y, m) ==
    IF m = 2 THEN (IF IsLeap(y) THEN 29 ELSE 28)
    ELSE IF m \in {4, 6, 9, 11} THEN 30 ELSE 31

\* days from 1970-01-01 to the civil date y-m-d
DaysFromCivil(y, m, d) ==
    LET yy == IF m <= 2 THEN y - 1 ELSE y
        era == yy \div 400
        yoe == yy - era * 400
        mp == (m + 9) % 12
        doy == (153 * mp + 2) \div 5 + d - 1
        doe == yoe * 365 + yoe \div 4 - yoe \div 100 + doy
    IN era * 146097 + doe - 719468

\* the microseconds of a %f field: 1 to 6 digits, padded on the right
RECURSIVE PadMicro(_)
PadMicro(s) == IF Len(s) >= 6 THEN s ELSE PadMicro(Append(s, "0"))

\* datetime.strptime(ts_str, "%Y-%m-%d %H:%M:%S[.%f]") on a string whose
\* fields have their full width (the strings of the model either have it or
\* match neither format).  Matches == FALSE stands for ValueError.
strptime(s, with_fraction) ==
    LET shape ==
            /\ Len(s) >= 19
            /\ AllDigits(SubSeq(s, 1, 4)) /\ s[5] = "-"
            /\ AllDigits(SubSeq(s, 6, 7)) /\ s[8] = "-"
            /\ AllDigits(SubSeq(s, 9, 10)) /\ s[11] = " "
            /\ AllDigits(SubSeq(s, 12, 13)) /\ s[14] = ":"
            /\ AllDigits(SubSeq(s, 15, 16)) /\ s[17] = ":"
            /\ AllDigits(SubSeq(s, 18, 19))
            /\ IF with_fraction
               THEN /\ Len(s) \in 21..26
                    /\ s[20] = "."
                    /\ AllDigits(SubSeq(s, 21, Len(s)))
               ELSE Len(s) = 19
        y == Number(SubSeq(s, 1, 4))
        mo == Number(SubSeq(s, 6, 7))
        d == Number(SubSeq(s, 9, 10))
        h == Number(SubSeq(s, 12, 13))
        mi == Number(SubSeq(s, 15, 16))
        sec == Number(SubSeq(s, 18, 19))
        us == IF with_fraction THEN Number(PadMicro(SubSeq(s, 21, Len(s)))) ELSE 0
        ok == /\ shape
              /\ y >= 1 /\ mo \in 1..12 /\ d \in 1..DaysInMonth(y, mo)
              /\ h <= 23 /\ mi <= 59 /\ sec <= 59
    IN IF ok
       THEN [matches |-> TRUE, y |-> y, mo |-> mo, d |-> d, h |-> h, mi |-> mi,
             sec |-> sec, us |-> us]
       ELSE [matches |-> FALSE, y |-> 0, mo |-> 0, d |-> 0, h |-> 0, mi |-> 0,
             sec |-> 0, us |-> 0]

\* int(dt.timestamp() * 1000) for the naive datetime dt, which timestamp()
\* reads as local time; offset is the zone's UTC offset in seconds.
\* int() truncates towards zero.
TimestampMillis(dt, offset) ==
    LET secs == DaysFromCivil(dt.y, dt.mo, dt.d) * 86400
                + dt.h * 3600 + dt.mi * 60 + dt.sec - offset
        floor_ms == secs * 1000 + dt.us \div 1000
    IN IF floor_ms < 0 /\ dt.us % 1000 # 0 THEN floor_ms + 1 ELSE floor_ms

\* int(value) of parse_timestamp's fallback on event["time"]
int(v) ==
    CASE v.t = "int" -> Returned(v.n)
      [] v.t = "bool" -> Returned(IF v.b THEN 1 ELSE 0)
      [] v.t = "float" -> Returned(IF v.n >= 0 THEN v.n \div 10 ELSE -((-v.n) \div 10))
      [] v.t = "str" -> (IF AllDigits(v.s) THEN Returned(Number(v.s))
                         ELSE Raised("ValueError"))
      [] OTHER -> Raised("TypeError")

\* the body of the try block for one timestamp field: the parsed milliseconds,
\* or ReturnedNone when ValueError or TypeError is caught and the loop continues
TryField(value, offset) ==
    LET has_dot == CharIn(".", value)
    IN IF has_dot = "raise" \/ value.t # "str" THEN ReturnedNone
       ELSE LET dt == strptime(value.s, has_dot = "yes")
            IN IF dt.matches THEN Returned(TimestampMillis(dt, offset))
               ELSE ReturnedNone

TimestampFields == <<"event_time", "client_event_time", "server_received_time">>

RECURSIVE ParseFields(_, _, _)
ParseFields(event, i, offset) ==
    IF i > Len(TimestampFields) THEN ReturnedNone
    ELSE LET field == TimestampFields[i]
         IN IF In(field, event) /\ Truthy(event.d[field])
            THEN LET r == TryField(event.d[field], offset)
                 IN IF r.kind = "value" THEN r
                    ELSE ParseFields(event, i + 1, offset)
            ELSE ParseFields(event, i + 1, offset)

parse_timestamp(event, offset) ==
    LET r == ParseFields(event, 1, offset)
    IN IF r.kind = "value" THEN r
       ELSE IF In("time", event) /\ Truthy(event.d["time"])
            THEN int(event.d["time"])
            ELSE ReturnedNone

\* upload_event[key] = value
Put(d, key, value) ==
    [k \in DOMAIN d \cup {key} |-> IF k = key THEN value ELSE d[k]]

\* Python's value == "" and value == {}
IsEmptyStr(v) == v.t = "str" /\ v.s = <<>>
IsEmptyDict(v) == v.t = "dict" /\ DOMAIN v.d = {}

\* Mutation: every falsy value is skipped, not only None, "" and {}
Copied_Falsy(export_event_, export_field) ==
    /\ In(export_field, export_event_)
    /\ Truthy(export_event_.d[export_field])

\* the test of the field loop: the field is present, not None, and neither
\* "" nor {}
Copied(export_event_, export_field) ==
    /\ In(export_field, export_event_)
    /\ export_event_.d[export_field].t # "null"
    /\ ~IsEmptyStr(export_event_.d[export_field])
    /\ ~IsEmptyDict(export_event_.d[export_field])

\* the loop over FIELD_MAPPING.items(), from pair i on
RECURSIVE MapFields(_, _, _)
MapFields(export_event_, i, upload) ==
    IF i > Len(FIELD_MAPPING) THEN upload
    ELSE LET export_field == FIELD_MAPPING[i][1]
             upload_field == FIELD_MAPPING[i][2]
         IN IF Copied(export_event_, export_field)
            THEN MapFields(export_event_, i + 1,
                           Put(upload, upload_field, export_event_.d[export_field]))
            ELSE MapFields(export_event_, i + 1, upload)

\* upload_event.get(key), as a truth value
GetTruthy(d, key) == key \in DOMAIN d /\ Truthy(d[key])

\* the validation at the end of convert_event
Valid(upload) ==
    /\ GetTruthy(upload, "user_id") \/ GetTruthy(upload, "device_id")
    /\ GetTruthy(upload, "event_type")

convert_event(export_event_, offset) ==
    IF InRaises(export_event_) THEN Raised("TypeError")
    ELSE LET mapped == MapFields(export_event_, 1, EmptyMap)
             timestamp == parse_timestamp(export_event_, offset)
         IN IF timestamp.kind = "raise" THEN timestamp
            ELSE LET upload == IF timestamp.kind = "value" /\ timestamp.v # 0
                               THEN Put(mapped, "time", JInt(timestamp.v))
                               ELSE mapped
                 IN IF Valid(upload) THEN Returned(JDict(upload))
                    ELSE ReturnedNone

\* ---- convert_event applied to one record, and again to its result ----
Convert ==
    /\ cpc = "call"
    /\ upload_event' = convert_event(export_event, tz)
    /\ cpc' = "returned"
    /\ UNCHANGED <<export_event, again, tz>>
    /\ UNCHANGED <<bvars, pvars>>

Reconvert ==
    /\ cpc = "returned"
    /\ upload_event.kind = "value"
    /\ again' = convert_event(upload_event.v, tz)
    /\ cpc' = "reconverted"
    /\ UNCHANGED <<export_event, upload_event, tz>>
    /\ UNCHANGED <<bvars, pvars>>

NextConvert == Convert \/ Reconvert

\* ---- process_json_file ----
\* json.loads on the lines of the model: a line that is the serialisation of
\* one of the values in parseable parses to that value, any other line raises
\* JSONDecodeError.
Loads(line, v) == dumps_default(v) = line

JsonValid(line, parseable) == \E v \in parseable : Loads(line, v)

(***************************************************************************)
(* Inputs                                                                  *)
(***************************************************************************)
MaxEvents == 4
MaxLines == 3

\* a string of n characters
Filler(n) == [i \in 1..n |-> "x"]

EvSmall == [event_type |-> JStr(<<"a">>), user_id |-> JStr(<<"u">>)]

EvBig ==
    [event_type |-> JStr(<<"a">>), user_id |-> JStr(<<"u">>),
     event_properties |-> JDict([p |-> JStr(Filler(20))])]

EvHuge ==
    [event_type |-> JStr(<<"a">>), user_id |-> JStr(<<"u">>),
     event_properties |-> JDict([p |-> JStr(Filler(20)), q |-> JStr(Filler(20)),
                                 r |-> JStr(Filler(20))])]

\* events read back by read_all_events: a small one, one that fills most of
\* a request, and one whose own request is over SAFE_PAYLOAD_BYTES
EventPool == {JDict(EvSmall), JDict(EvBig), JDict(EvHuge)}

ApiKeys == {<<"K">>, <<"K", "\"", "2">>}

SeqsUpTo(S, n) == UNION {[1..m -> S] : m \in 0..n}

Absent == [t |-> "absent"]

\* timestamp strings; the dates sit next to the epoch so that the milliseconds
\* stay within the integers TLC computes with
TsEpoch == JStr(<<"1", "9", "7", "0", "-", "0", "1", "-", "0", "1", " ", "0", "0", ":", "0", "0", ":", "0", "0">>)
TsFraction == JStr(<<"1", "9", "7", "0", "-", "0", "1", "-", "0", "1", " ", "0", "0", ":", "0", "0", ":", "0", "1", ".", "5">>)
TsNextDay == JStr(<<"1", "9", "7", "0", "-", "0", "1", "-", "0", "2", " ", "0", "0", ":", "0", "0", ":", "0", "0">>)
TsBad == JStr(<<"b", "a", "d">>)
TsBadDot == JStr(<<"x", ".", "y">>)

UserIds == {Absent, JStr(<<>>), JStr(<<"u">>), JInt(0)}
DeviceIds == {Absent, JNull, JStr(<<"d">>)}
EventTypes == {Absent, JStr(<<>>), JStr(<<"e">>), JList(<<>>)}
EventProps == {Absent, JDict(EmptyMap), JDict([p |-> JInt(1)]), JList(<<>>)}
EventTimes == {Absent, TsEpoch, TsFraction, TsBad, JInt(5)}
ClientTimes == {Absent, TsBadDot}
ServerTimes == {Absent, TsNextDay}
Times == {Absent, JInt(0), JInt(1700), JStr(<<"a", "b", "c">>), JStr(<<"1", "2">>),
          JFloat(15), JList(<<JInt(1)>>)}

\* the dict whose members are the fields of f that are not Absent
MakeRaw(f) == JDict([k \in {x \in DOMAIN f : f[x].t # "absent"} |-> f[k]])

\* raw export records; "uuid" is a field the upload format does not have
RawEvents ==
    { MakeRaw([user_id |-> u, device_id |-> d, event_type |-> e,
               event_properties |-> p, uuid |-> JStr(<<"x">>),
               event_time |-> et, client_event_time |-> ct,
               server_received_time |-> st, time |-> tm]) :
        u \in UserIds, d \in DeviceIds, e \in EventTypes, p \in EventProps,
        et \in EventTimes, ct \in ClientTimes, st \in ServerTimes, tm \in Times }

\* values that are not records at all
NonRecords == {JInt(5), JNull, JList(<<>>)}

Offsets == {0, 3600}

\* the values the lines of an input file parse to
Parseable ==
    { JDict([event_type |-> JStr(<<"e">>), user_id |-> JStr(<<"u">>),
             event_time |-> TsFraction]),
      JDict([event_type |-> JStr(<<"e">>), device_id |-> JStr(<<"d">>),
             uuid |-> JStr(<<"x">>)]),
      JDict([event_type |-> JStr(<<"e">>)]),
      JDict([event_type |-> JStr(<<"e">>), user_id |-> JStr(<<"u">>),
             time |-> JStr(<<"a", "b", "c">>)]),
      JList(<<>>) }

\* the lines of an input file, stripped: records, a blank line, broken JSON
LinePool == {dumps_default(v) : v \in Parseable} \cup {"", "{\"event_type\": "}

\* values of the variables of a script that is not running
IdleBundle ==
    /\ bpc = "idle" /\ api_key = <<>> /\ events = <<>> /\ ei = 0
    /\ batches = <<>> /\ current_batch = <<>> /\ scripts = <<>>
    /\ reported = <<>> /\ eu = FALSE /\ run_all = 0

IdleConvert ==
    /\ cpc = "idle" /\ export_event = JNull
    /\ upload_event = ReturnedNone /\ again = ReturnedNone

IdleProcess ==
    /\ ppc = "idle" /\ lines = <<>> /\ line_num = 0
    /\ converted = <<>> /\ skipped = 0

\* bundle_requests.py started on the events of the input directory
InitBundle ==
    /\ bpc = "main"
    /\ api_key \in ApiKeys
    /\ events \in SeqsUpTo(EventPool, MaxEvents)
    /\ eu \in BOOLEAN
    /\ ei = 0 /\ batches = <<>> /\ current_batch = <<>>
    /\ scripts = <<>> /\ reported = <<>> /\ run_all = 0
    /\ tz = 0
    /\ IdleConvert /\ IdleProcess

\* convert_event called on one raw record
InitConvert ==
    /\ cpc = "call"
    /\ export_event \in RawEvents \cup NonRecords
    /\ upload_event = ReturnedNone /\ again = ReturnedNone
    /\ tz \in Offsets
    /\ IdleBundle /\ IdleProcess

\* process_json_file called on one file
InitProcess ==
    /\ ppc = "loop"
    /\ lines \in SeqsUpTo(LinePool, MaxLines)
    /\ line_num = 0 /\ converted = <<>> /\ skipped = 0
    /\ tz \in Offsets
    /\ IdleBundle /\ IdleConvert

SpecBundle == InitBundle /\ [][NextBundle]_vars
SpecConvert == InitConvert /\ [][NextConvert]_vars

\* ---- process_json_file: one action per way through the loop body ----
\* `if not line: continue`
ProcessBlank ==
    /\ ppc = "loop"
    /\ line_num < Len(lines)
    /\ lines[line_num + 1] = ""
    /\ line_num' = line_num + 1
    /\ UNCHANGED <<ppc, lines, converted, skipped, tz>>
    /\ UNCHANGED <<bvars, cvars>>

\* Mutation: the broken line is passed over without being counted
ProcessInvalidJson_Uncounted ==
    /\ ppc = "loop"
    /\ line_num < Len(lines)
    /\ lines[line_num + 1] # ""
    /\ \A v \in Parseable : dumps_default(v) # lines[line_num + 1]
    /\ line_num' = line_num + 1
    /\ UNCHANGED <<ppc, lines, converted, skipped, tz>>
    /\ UNCHANGED <<bvars, cvars>>

\* json.loads raises JSONDecodeError: warned about, counted, loop goes on
ProcessInvalidJson ==
    /\ ppc = "loop"
    /\ line_num < Len(lines)
    /\ lines[line_num + 1] # ""
    /\ ~JsonValid(lines[line_num + 1], Parseable)
    /\ skipped' = skipped + 1
    /\ line_num' = line_num + 1
    /\ UNCHANGED <<ppc, lines, converted, tz>>
    /\ UNCHANGED <<bvars, cvars>>

\* convert_event returns a record that is truthy: appended
ProcessAccept ==
    /\ ppc = "loop"
    /\ line_num < Len(lines)
    /\ lines[line_num + 1] # ""
    /\ \E export \in Parseable :
          /\ Loads(lines[line_num + 1], export)
          /\ \E r \in {convert_event(export, tz)} :
                /\ r.kind = "value"
                /\ Truthy(r.v)
                /\ converted' = Append(converted, r.v)
    /\ line_num' = line_num + 1
    /\ UNCHANGED <<ppc, lines, skipped, tz>>
    /\ UNCHANGED <<bvars, cvars>>

\* convert_event returns None (or a falsy record): counted
ProcessReject ==
    /\ ppc = "loop"
    /\ line_num < Len(lines)
    /\ lines[line_num + 1] # ""
    /\ \E export \in Parseable :
          /\ Loads(lines[line_num + 1], export)
          /\ \E r \in {convert_event(export, tz)} :
                \/ r.kind = "none"
                \/ r.kind = "value" /\ ~Truthy(r.v)
    /\ skipped' = skipped + 1
    /\ line_num' = line_num + 1
    /\ UNCHANGED <<ppc, lines, converted, tz>>
    /\ UNCHANGED <<bvars, cvars>>

\* convert_event raises: only JSONDecodeError is caught, so the exception
\* leaves process_json_file at this line
ProcessRaise ==
    /\ ppc = "loop"
    /\ line_num < Len(lines)
    /\ lines[line_num + 1] # ""
    /\ \E export \in Parseable :
          /\ Loads(lines[line_num + 1], export)
          /\ convert_event(export, tz).kind = "raise"
    /\ ppc' = "raised"
    /\ UNCHANGED <<lines, line_num, converted, skipped, tz>>
    /\ UNCHANGED <<bvars, cvars>>

\* the file is exhausted: converted is returned
ProcessReturn ==
    /\ ppc = "loop"
    /\ line_num = Len(lines)
    /\ ppc' = "done"
    /\ UNCHANGED <<lines, line_num, converted, skipped, tz>>
    /\ UNCHANGED <<bvars, cvars>>

NextProcess ==
    \/ ProcessBlank
    \/ ProcessInvalidJson
    \/ ProcessAccept
    \/ ProcessReject
    \/ ProcessRaise
    \/ ProcessReturn

SpecProcess == InitProcess /\ [][NextProcess]_vars

(***************************************************************************)
(* Properties of bundle_requests.py (SpecBundle)                           *)
(***************************************************************************)
RECURSIVE Flatten(_)
Flatten(bs) == IF bs = <<>> THEN <<>> ELSE Head(bs) \o Flatten(Tail(bs))

RECURSIVE SumLen(_)
SumLen(bs) == IF bs = <<>> THEN 0 ELSE Len(Head(bs)) + SumLen(Tail(bs))

Returned_batches == bpc \in {"generate", "done"}

\* C1: the batches batch_events returns, concatenated in order, are exactly
\* the input events, so the batch lengths add up to the number of events;
\* while the loop runs, the closed batches and the open one are exactly the
\* events consumed so far.
C1_BatchesPartitionInput ==
    /\ bpc = "batch" => Flatten(batches) \o current_batch = SubSeq(events, 1, ei)
    /\ Returned_batches =>
          /\ Flatten(batches) = events
          /\ SumLen(batches) = Len(events)

C1_Witness ==
    /\ bpc = "done"
    /\ Len(events) >= 4
    /\ Len(batches) >= 2
    /\ \E i \in 1..Len(batches) : Len(batches[i]) >= 2

\* C2: a batch is over the byte limit only if it holds exactly one event
\* (whose own envelope is then over the limit); a batch of two or more events
\* is never over it.
C2_SizeWithinLimit ==
    \A i \in 1..Len(batches) :
        \/ estimate_payload_size(api_key, batches[i]) <= SAFE_PAYLOAD_BYTES
        \/ /\ Len(batches[i]) = 1
           /\ estimate_payload_size(api_key, <<batches[i][1]>>) > SAFE_PAYLOAD_BYTES

C2_Witness ==
    /\ bpc = "done"
    /\ \E i, j \in 1..Len(batches) :
          /\ Len(batches[i]) >= 2
          /\ j = i + 1
          /\ estimate_payload_size(api_key, batches[j]) <= SAFE_PAYLOAD_BYTES
          /\ estimate_payload_size(api_key, Append(batches[i], batches[j][1]))
                 > SAFE_PAYLOAD_BYTES
    /\ \E k \in 1..Len(batches) :
          estimate_payload_size(api_key, batches[k]) > SAFE_PAYLOAD_BYTES

\* C3: no batch, closed or open, holds more than MAX_EVENTS_PER_BATCH events.
C3_CountWithinLimit ==
    /\ Len(current_batch) <= MAX_EVENTS_PER_BATCH
    /\ \A i \in 1..Len(batches) : Len(batches[i]) <= MAX_EVENTS_PER_BATCH

\* a count split (batch 1 is full and would have taken the next event by
\* size) followed by a size split
C3_Witness ==
    /\ bpc = "done"
    /\ Len(batches) >= 3
    /\ Len(batches[1]) = MAX_EVENTS_PER_BATCH
    /\ estimate_payload_size(api_key, Append(batches[1], batches[2][1]))
           <= SAFE_PAYLOAD_BYTES
    /\ Len(batches[2]) < MAX_EVENTS_PER_BATCH
    /\ estimate_payload_size(api_key, Append(batches[2], batches[3][1]))
           > SAFE_PAYLOAD_BYTES

\* C4: an event whose own envelope is over the limit is surfaced, never
\* handed on to script generation like any other batch.  The scripts carry no
\* mark of an anomaly and main has no failing path, so the statement comes
\* down to: no script is ever written for a batch over the limit.
C4_OversizeSurfaced ==
    \A i \in 1..Len(scripts) :
        estimate_payload_size(api_key, batches[i]) <= SAFE_PAYLOAD_BYTES

\* the separators json writes in a value: one per member after the first and
\* one per key
RECURSIVE Separators(_)
RECURSIVE SeparatorsIn(_)
SeparatorsIn(vs) ==
    IF vs = <<>> THEN 0 ELSE Separators(Head(vs)) + SeparatorsIn(Tail(vs))

RECURSIVE SeparatorsOf(_, _)
SeparatorsOf(d, ks) ==
    IF ks = {} THEN 0
    ELSE LET k == CHOOSE x \in ks : TRUE
         IN Separators(d[k]) + SeparatorsOf(d, ks \ {k})

Separators(v) ==
    CASE v.t = "list" ->
            (IF v.items = <<>> THEN 0 ELSE Len(v.items) - 1) + SeparatorsIn(v.items)
      [] v.t = "dict" ->
            (IF DOMAIN v.d = {} THEN 0 ELSE 2 * Cardinality(DOMAIN v.d) - 1)
            + SeparatorsOf(v.d, DOMAIN v.d)
      [] OTHER -> 0

\* C5 as stated: the size estimate_payload_size returns for a batch is the
\* byte length of the body generate_curl_script serialises for it.
C5_ByteExact ==
    \A i \in 1..Len(scripts) : reported[i] = Len(scripts[i].body)

\* C5 as amended: the estimate is never below the byte length of the body: it
\* is above it by exactly one byte for each separator of the payload (the
\* estimate writes ", " and ": ", the body "," and ":"), three at the least.
C5_EstimateAboveBody ==
    \A i \in 1..Len(scripts) :
        /\ reported[i] = Len(scripts[i].body)
                         + Separators(create_payload(api_key, batches[i]))
        /\ reported[i] >= Len(scripts[i].body) + 3

C5_Witness ==
    /\ bpc = "done"
    /\ Len(scripts) >= 2
    /\ \E i \in 1..Len(scripts) : scripts[i].n_events >= 2
    /\ \E c \in 1..Len(api_key) : api_key[c] = "\""

(***************************************************************************)
(* Properties of convert_event (SpecConvert)                               *)
(***************************************************************************)
Called == cpc \in {"returned", "reconverted"}

\* a field of a raw record that is absent, null or empty
Missing(raw, key) ==
    \/ key \notin DOMAIN raw.d
    \/ raw.d[key].t = "null"
    \/ raw.d[key].t = "str" /\ raw.d[key].s = <<>>
    \/ raw.d[key].t = "list" /\ raw.d[key].items = <<>>
    \/ raw.d[key].t = "dict" /\ DOMAIN raw.d[key].d = {}

\* a field of a record that is present with a value Python takes for true
Filled(rec, key) == key \in DOMAIN rec.d /\ Truthy(rec.d[key])

\* C6: convert_event returns None for every raw record whose event_type is
\* missing or whose user_id and device_id are both missing, and every record
\* it returns has an event_type and a user_id or device_id that are filled.
C6_ValidationGate ==
    Called /\ export_event.t = "dict" =>
        /\ ( \/ Missing(export_event, "event_type")
             \/ Missing(export_event, "user_id") /\ Missing(export_event, "device_id") )
           => upload_event.kind = "none"
        /\ upload_event.kind = "value" =>
              /\ Filled(upload_event.v, "event_type")
              /\ Filled(upload_event.v, "user_id") \/ Filled(upload_event.v, "device_id")

\* C7: a raw record with a filled event_type and a filled user_id or
\* device_id is always converted, whatever its timestamp fields hold:
\* convert_event neither raises nor returns None.
C7_TimestampNeverRejects ==
    /\ Called
    /\ export_event.t = "dict"
    /\ Filled(export_event, "event_type")
    /\ Filled(export_event, "user_id") \/ Filled(export_event, "device_id")
    => upload_event.kind = "value"

AllowList == {FIELD_MAPPING[i][1] : i \in 1..Len(FIELD_MAPPING)}

\* C8: for an accepted record, the keys of the output other than "time" are
\* exactly the allow-listed keys whose raw value exists and is neither null,
\* nor "", nor {}; each carries the raw value.
C8_FieldCopy ==
    Called /\ upload_event.kind = "value" =>
        LET raw == export_event.d
            out == upload_event.v.d
            kept == {k \in AllowList \cap DOMAIN raw :
                        /\ raw[k].t # "null"
                        /\ ~(raw[k].t = "str" /\ raw[k].s = <<>>)
                        /\ ~(raw[k].t = "dict" /\ DOMAIN raw[k].d = {})}
        IN /\ DOMAIN out \ {"time"} = kept
           /\ \A k \in kept : out[k] = raw[k]

\* an accepted record with an empty list copied, a key outside the allow-list
\* dropped, an empty dict skipped and a time resolved
C8_Witness ==
    /\ Called
    /\ upload_event.kind = "value"
    /\ "uuid" \in DOMAIN export_event.d
    /\ "device_id" \in DOMAIN export_event.d
    /\ "device_id" \notin DOMAIN upload_event.v.d
    /\ "event_properties" \in DOMAIN upload_event.v.d
    /\ upload_event.v.d["event_properties"].t = "list"
    /\ "time" \in DOMAIN upload_event.v.d

\* C9: convert_event applied to a record it returned returns that record.
C9_Idempotent ==
    cpc = "reconverted" => again = upload_event

\* a record re-converted whose time came out of a parsed event_time, and whose
\* event_properties were copied
C9_Witness ==
    /\ cpc = "reconverted"
    /\ again.kind = "value"
    /\ "event_time" \in DOMAIN export_event.d
    /\ "time" \notin DOMAIN export_event.d
    /\ "time" \in DOMAIN again.v.d
    /\ "event_properties" \in DOMAIN again.v.d

(***************************************************************************)
(* Properties of process_json_file (SpecProcess)                           *)
(***************************************************************************)
\* what the loop body does with one line: "blank", "invalid", "accept",
\* "reject" or "raise"
LineKind(line, offset) ==
    IF line = "" THEN "blank"
    ELSE IF ~JsonValid(line, Parseable) THEN "invalid"
    ELSE LET v == CHOOSE x \in Parseable : Loads(line, x)
             r == convert_event(v, offset)
         IN IF r.kind = "raise" THEN "raise"
            ELSE IF r.kind = "value" THEN "accept" ELSE "reject"

\* the converted records of the accepted lines among the first n, in order
RECURSIVE AcceptedUpTo(_, _, _)
AcceptedUpTo(ls, n, offset) ==
    IF n = 0 THEN <<>>
    ELSE IF LineKind(ls[n], offset) = "accept"
         THEN LET v == CHOOSE x \in Parseable : Loads(ls[n], x)
              IN Append(AcceptedUpTo(ls, n - 1, offset), convert_event(v, offset).v)
         ELSE AcceptedUpTo(ls, n - 1, offset)

CountKind(ls, n, kinds, offset) ==
    Cardinality({i \in 1..n : LineKind(ls[i], offset) \in kinds})

\* C10: a line that is not valid JSON is counted as skipped and the loop goes
\* on (only a line that is valid JSON can end the call early); at every point
\* of the loop and at the return, converted holds the converted records of the
\* accepted lines read so far, in order, and len(converted) + skipped is the
\* number of non-blank lines read so far; at the return every line was read.
C10_LineRecovery ==
    /\ ppc = "raised" => LineKind(lines[line_num + 1], tz) = "raise"
    /\ ppc = "done" => line_num = Len(lines)
    /\ ppc \in {"loop", "done"} =>
          /\ converted = AcceptedUpTo(lines, line_num, tz)
          /\ skipped = CountKind(lines, line_num, {"invalid", "reject"}, tz)
          /\ Len(converted) + skipped
               = CountKind(lines, line_num, {"invalid", "reject", "accept"}, tz)

\* a file read to its end with a broken line before an accepted one
C10_Witness ==
    /\ ppc = "done"
    /\ \E i, j \in 1..Len(lines) :
          /\ i < j
          /\ LineKind(lines[i], tz) = "invalid"
          /\ LineKind(lines[j], tz) = "accept"
    /\ \E k \in 1..Len(lines) : lines[k] = ""

(***************************************************************************)
(* Greedy maximality of batch_events (SpecBundle)                          *)
(***************************************************************************)
\* the batch b could not have taken the event e as well
Full(b, e) ==
    \/ Len(b) + 1 > MAX_EVENTS_PER_BATCH
    \/ estimate_payload_size(api_key, Append(b, e)) > SAFE_PAYLOAD_BYTES

\* no run of up to MAX_EVENTS_PER_BATCH consecutive input events is over the
\* byte limit: the byte limit never binds
SizeNeverBinds ==
    \A i \in 1..Len(events) : \A j \in i..Len(events) :
        j - i + 1 <= MAX_EVENTS_PER_BATCH =>
            estimate_payload_size(api_key, SubSeq(events, i, j)) <= SAFE_PAYLOAD_BYTES

\* every two consecutive input events are together over the byte limit
EveryPairOverSize ==
    \A i \in 1..(Len(events) - 1) :
        estimate_payload_size(api_key, SubSeq(events, i, i + 1)) > SAFE_PAYLOAD_BYTES

\* C11: no batch is empty, and a batch is closed only when the next event
\* cannot be appended: every batch but the last, extended by the first event
\* of the batch after it (while the loop runs: of the open batch), is over the
\* count limit or over the byte limit.  When the byte limit never binds every
\* returned batch but the last has exactly MAX_EVENTS_PER_BATCH events; when
\* every two consecutive events are over the byte limit together, every
\* returned batch has one event.
C11_GreedyMaximal ==
    /\ \A i \in 1..Len(batches) : batches[i] # <<>>
    /\ \A i \in 1..(Len(batches) - 1) : Full(batches[i], batches[i + 1][1])
    /\ bpc = "batch" /\ batches # <<>> =>
          /\ current_batch # <<>>
          /\ Full(batches[Len(batches)], current_batch[1])
    /\ Returned_batches /\ SizeNeverBinds =>
          \A i \in 1..(Len(batches) - 1) : Len(batches[i]) = MAX_EVENTS_PER_BATCH
    /\ Returned_batches /\ EveryPairOverSize =>
          /\ Len(batches) = Len(events)
          /\ \A i \in 1..Len(batches) : Len(batches[i]) = 1

\* three events under a byte limit that never binds, returned as a full batch
\* and a rest
C11_Witness ==
    /\ bpc = "done"
    /\ Len(events) = 3
    /\ SizeNeverBinds
    /\ Len(batches) = 2
    /\ Len(batches[1]) = MAX_EVENTS_PER_BATCH
    /\ Len(batches[2]) = 1

====
